---- MODULE Spec2Model ----
(***************************************************************************)
(* Stage-transition workflow of the SDLC pipeline of                       *)
(* src/streamlit_final.py (revision "final") and src/streamlit.py          *)
(* (revision "v1").  One step of the model is one run of the Streamlit     *)
(* script (a "turn"): the sidebar computes llm, the dispatch on            *)
(* app_state['stage'] runs one branch, and the run ends either normally,   *)
(* with st.rerun(), or with an uncaught exception.                         *)
(*                                                                         *)
(* Texts are sequences of one-character strings, so that strip(), lower(), *)
(* startswith() and split() are computed as Python computes them.  A       *)
(* string literal of the program that is only ever concatenated is one     *)
(* element of the sequence (a "chunk").                                    *)
(***************************************************************************)
EXTENDS Integers, Sequences, FiniteSets, TLC

VARIABLES
    rev,                \* which revision of the script runs: "final" or "v1"
    app_state,          \* st.session_state.app_state, the SDLCState dict
    show_feedback_box,  \* st.session_state.show_feedback_box
    llm,                \* TRUE iff the global llm is a client object (not None)
    rerun,              \* TRUE iff the last run ended in st.rerun()
    turn                \* what the last run did (history variable)

vars == <<rev, app_state, show_feedback_box, llm, rerun, turn>>

----------------------------------------------------------------------------
(* Bounds *)

MaxHistory == 6         \* no handler is started once history has this many entries

----------------------------------------------------------------------------
(* Python values *)

None == <<"<None>">>            \* the value None of an Optional[str] field
Absent == <<"<absent>">>        \* a key the dict does not have
NoText == <<>>                  \* the empty string ""

Truthy(x) == x # None /\ x # Absent /\ x # NoText

IsSpace(c) == c \in {" ", "\n"}

LowerChar(c) ==
    CASE c = "A" -> "a" [] c = "B" -> "b" [] c = "C" -> "c" [] c = "D" -> "d"
      [] c = "E" -> "e" [] c = "F" -> "f" [] c = "G" -> "g" [] c = "H" -> "h"
      [] c = "I" -> "i" [] c = "J" -> "j" [] c = "K" -> "k" [] c = "L" -> "l"
      [] c = "M" -> "m" [] c = "N" -> "n" [] c = "O" -> "o" [] c = "P" -> "p"
      [] c = "Q" -> "q" [] c = "R" -> "r" [] c = "S" -> "s" [] c = "T" -> "t"
      [] c = "U" -> "u" [] c = "V" -> "v" [] c = "W" -> "w" [] c = "X" -> "x"
      [] c = "Y" -> "y" [] c = "Z" -> "z" [] OTHER -> c

\* str.lower()
lower(s) == [i \in 1..Len(s) |-> LowerChar(s[i])]

RECURSIVE lstrip(_)
lstrip(s) == IF s # <<>> /\ IsSpace(Head(s)) THEN lstrip(Tail(s)) ELSE s

RECURSIVE rstrip(_)
rstrip(s) ==
    IF s # <<>> /\ IsSpace(s[Len(s)]) THEN rstrip(SubSeq(s, 1, Len(s) - 1)) ELSE s

\* str.strip()
strip(s) == rstrip(lstrip(s))

\* str.startswith(p), str.endswith(p)
startswith(s, p) == Len(s) >= Len(p) /\ SubSeq(s, 1, Len(p)) = p
endswith(s, p) == Len(s) >= Len(p) /\ SubSeq(s, Len(s) - Len(p) + 1, Len(s)) = p

\* s.split(p, 1)[1] for an s that contains p: the text after the first p
split1(s, p) ==
    LET at == CHOOSE i \in 1..(Len(s) - Len(p) + 1) :
                  /\ SubSeq(s, i, i + Len(p) - 1) = p
                  /\ \A j \in 1..(i - 1) : SubSeq(s, j, j + Len(p) - 1) # p
    IN  SubSeq(s, at + Len(p), Len(s))

\* needle in s (Python's substring test)
Contains(s, needle) ==
    \E i \in 1..(Len(s) - Len(needle) + 1) : SubSeq(s, i, i + Len(needle) - 1) = needle

\* "bq" stands for the one character U+0060 (a backquote)
Backtick == "bq"

Fence == <<Backtick, Backtick, Backtick>>

clean_llm_code_output(content, language) ==
    LET c0 == strip(content)
        language_tag_start == strip(Fence \o (IF Truthy(language) THEN lower(language) ELSE <<>>))
        c1 == IF Truthy(language) /\ startswith(c0, language_tag_start)
                 THEN SubSeq(c0, Len(language_tag_start) + 1, Len(c0))
              ELSE IF startswith(c0, Fence) THEN SubSeq(c0, 4, Len(c0))
              ELSE c0
        c2 == IF endswith(c1, Fence) THEN SubSeq(c1, 1, Len(c1) - 3) ELSE c1
    IN  strip(c2)

----------------------------------------------------------------------------
(* The record and the Generation Service *)

W_approved == <<"a", "p", "p", "r", "o", "v", "e", "d">>
W_feedback == <<"f", "e", "e", "d", "b", "a", "c", "k", ":">>
W_PASS == <<"P", "A", "S", "S", ":">>
W_FAIL == <<"F", "A", "I", "L", ":">>

\* SDLCState(...) as constructed at process start and by 'Start New Workflow'
InitialState ==
    [stage |-> "User Input", user_input |-> NoText, target_language |-> None,
     user_stories |-> None, design_docs |-> None, code |-> None,
     test_cases |-> None, decision |-> "none", feedback |-> None,
     history |-> <<>>, deployment_reasoning |-> Absent]

\* history replaced by its newest entry
Hist_overwrites(state, name, text) ==
    IF rev = "final" THEN [state EXCEPT !.history = << <<name, text>> >>]
    ELSE state

\* state["history"].append(entry); streamlit.py keeps no history
Hist(state, name, text) ==
    IF rev = "final" THEN [state EXCEPT !.history = Append(@, <<name, text>>)]
    ELSE state

\* The outcome of one llm.invoke: r.exc = TRUE is a raised exception whose
\* message is r.content, otherwise r.content is result.content.

\* The if/elif/else on the reviewer's text that product_owner_review,
\* design_review and code_review share (prefix test on the normalised text)
ParseReview(state, content, unclear) ==
    IF startswith(content, W_approved)
        THEN [state EXCEPT !.decision = "approved", !.feedback = None]
    ELSE IF startswith(content, W_feedback)
        THEN [state EXCEPT !.decision = "feedback",
                           !.feedback = strip(split1(content, W_feedback))]
    ELSE [state EXCEPT !.decision = "feedback", !.feedback = unclear]

\* generate_user_stories with a placeholder written when llm is None
generate_user_stories_placeholder(state, l, r) ==
    IF l THEN
        IF r.exc THEN state
        ELSE Hist([state EXCEPT !.user_stories = r.content,
                                !.stage = "Product Owner Review"],
                  "generate_user_stories", r.content)
    ELSE [state EXCEPT !.user_stories = <<"LLM object is not initialized.">>]

generate_user_stories(state, l, r) ==
    IF l THEN
        IF r.exc THEN state
        ELSE Hist([state EXCEPT !.user_stories = r.content,
                                !.stage = "Product Owner Review"],
                  "generate_user_stories", r.content)
    ELSE state

product_owner_review(state, l, r) ==
    IF l THEN
        IF r.exc THEN state
        ELSE LET content == lower(strip(r.content))
             IN  Hist(ParseReview(state, content,
                        <<"LLM response unclear, please manually review and revise: '">>
                            \o content \o <<"'">>),
                      "product_owner_review", r.content)
    ELSE state

\* revise_user_stories returning to a stage name the dispatch does not know
revise_user_stories_misnames_stage(state, l, r) ==
    IF ~Truthy(state.feedback) THEN [state EXCEPT !.stage = "Product Owner Review"]
    ELSE IF l THEN
        IF r.exc THEN state
        ELSE Hist([state EXCEPT !.user_stories = r.content, !.decision = "none",
                                !.feedback = None, !.stage = "PO Review"],
                  "revise_user_stories", r.content)
    ELSE state

revise_user_stories(state, l, r) ==
    IF ~Truthy(state.feedback) THEN [state EXCEPT !.stage = "Product Owner Review"]
    ELSE IF l THEN
        IF r.exc THEN state
        ELSE Hist([state EXCEPT !.user_stories = r.content, !.decision = "none",
                                !.feedback = None, !.stage = "Product Owner Review"],
                  "revise_user_stories", r.content)
    ELSE state

\* create_design_docs storing its text over the user stories as well
create_design_docs_overwrites_stories(state, l, r) ==
    IF l THEN
        IF r.exc THEN state
        ELSE Hist([state EXCEPT !.design_docs = r.content, !.user_stories = r.content,
                                !.stage = "Design Review"],
                  "create_design_docs", r.content)
    ELSE state

create_design_docs(state, l, r) ==
    IF l THEN
        IF r.exc THEN state
        ELSE Hist([state EXCEPT !.design_docs = r.content, !.stage = "Design Review"],
                  "create_design_docs", r.content)
    ELSE state

design_review(state, l, r) ==
    IF l THEN
        IF r.exc THEN state
        ELSE LET content == lower(strip(r.content))
             IN  Hist(ParseReview(state, content,
                        <<"LLM response unclear, please manually review and revise: '">>
                            \o content \o <<"'">>),
                      "design_review", r.content)
    ELSE state

\* revise_design_docs also replacing the user stories
revise_design_docs_rewrites_stories(state, l, r) ==
    IF l /\ Truthy(state.feedback) THEN
        IF r.exc THEN state
        ELSE Hist([state EXCEPT !.design_docs = r.content, !.user_stories = r.content,
                                !.decision = "none", !.feedback = None,
                                !.stage = "Design Review"],
                  "revise_design_docs", r.content)
    ELSE IF ~Truthy(state.feedback) THEN
        Hist([state EXCEPT !.stage = "Design Review"], "revise_design_docs",
             <<"No feedback provided. Skipping design document revision.">>)
    ELSE state

revise_design_docs(state, l, r) ==
    IF l /\ Truthy(state.feedback) THEN
        IF r.exc THEN state
        ELSE Hist([state EXCEPT !.design_docs = r.content, !.decision = "none",
                                !.feedback = None, !.stage = "Design Review"],
                  "revise_design_docs", r.content)
    ELSE IF ~Truthy(state.feedback) THEN
        Hist([state EXCEPT !.stage = "Design Review"], "revise_design_docs",
             <<"No feedback provided. Skipping design document revision.">>)
    ELSE state

\* generate_code falling back to a default language instead of returning
generate_code_default_language(state, l, r) ==
    IF l THEN
        IF r.exc THEN state
        ELSE LET language == IF Truthy(state.target_language) THEN state.target_language
                             ELSE <<"python">>
                 content == clean_llm_code_output(r.content, language)
             IN  Hist([state EXCEPT !.code = content, !.stage = "Code Review"],
                      "generate_code", content)
    ELSE state

generate_code(state, l, r) ==
    IF ~Truthy(state.target_language) THEN [state EXCEPT !.stage = "User Input"]
    ELSE IF l THEN
        IF r.exc THEN state
        ELSE LET content == clean_llm_code_output(r.content, state.target_language)
             IN  Hist([state EXCEPT !.code = content, !.stage = "Code Review"],
                      "generate_code", content)
    ELSE state

code_review(state, l, r) ==
    IF l THEN
        IF r.exc THEN state
        ELSE LET content == lower(strip(r.content))
             IN  Hist(ParseReview(state, content,
                        <<"LLM response unclear (">> \o state.target_language
                            \o <<" Code Review), please manually review and revise: '">>
                            \o content \o <<"'">>),
                      "code_review", r.content)
    ELSE state

\* fix_code_review handing the rewritten code straight to Test Case Review
fix_code_review_jumps_to_test_review(state, l, r) ==
    IF l /\ Truthy(state.feedback) THEN
        IF r.exc THEN state
        ELSE LET content == clean_llm_code_output(r.content, state.target_language)
             IN  Hist([state EXCEPT !.code = content, !.decision = "none",
                                    !.feedback = None, !.stage = "Test Case Review"],
                      "fix_code_review", content)
    ELSE IF ~Truthy(state.feedback) THEN
        Hist([state EXCEPT !.stage = "Code Review"], "fix_code_review",
             <<"No feedback provided. Skipping code fixing.">>)
    ELSE state

fix_code_review(state, l, r) ==
    IF l /\ Truthy(state.feedback) THEN
        IF r.exc THEN state
        ELSE LET content == clean_llm_code_output(r.content, state.target_language)
             IN  Hist([state EXCEPT !.code = content, !.decision = "none",
                                    !.feedback = None, !.stage = "Code Review"],
                      "fix_code_review", content)
    ELSE IF ~Truthy(state.feedback) THEN
        Hist([state EXCEPT !.stage = "Code Review"], "fix_code_review",
             <<"No feedback provided. Skipping code fixing.">>)
    ELSE state

\* security_review moving the stage on by itself before the dispatch does
security_review_enters_fix(state, l, r) ==
    IF ~Truthy(state.code) THEN
        [state EXCEPT !.decision = "feedback",
                      !.feedback = <<"No code available for security review.">>]
    ELSE IF l THEN
        IF r.exc THEN state
        ELSE LET content == lower(strip(r.content))
             IN  Hist([ParseReview(state, content,
                         <<"Potential security concerns identified (">>
                             \o state.target_language \o <<"): ">> \o content)
                         EXCEPT !.stage = "Fix Security"],
                      "security_review", r.content)
    ELSE [state EXCEPT !.decision = "feedback",
                       !.feedback = <<"LLM not initialized, skipping security review.">>,
                       !.stage = "Security Review"]

security_review(state, l, r) ==
    IF ~Truthy(state.code) THEN
        [state EXCEPT !.decision = "feedback",
                      !.feedback = <<"No code available for security review.">>]
    ELSE IF l THEN
        IF r.exc THEN state
        ELSE LET content == lower(strip(r.content))
             IN  Hist([ParseReview(state, content,
                         <<"Potential security concerns identified (">>
                             \o state.target_language \o <<"): ">> \o content)
                         EXCEPT !.stage = "Security Review"],
                      "security_review", r.content)
    ELSE [state EXCEPT !.decision = "feedback",
                       !.feedback = <<"LLM not initialized, skipping security review.">>,
                       !.stage = "Security Review"]

\* fix_security_issues whose skip returns without assigning stage
fix_security_issues_skip_stays(state, l, r) ==
    IF ~Truthy(state.feedback) THEN state
    ELSE IF l THEN
        IF r.exc THEN state
        ELSE LET content == clean_llm_code_output(r.content, state.target_language)
             IN  Hist([state EXCEPT !.code = content, !.decision = "none",
                                    !.feedback = None, !.stage = "Security Review"],
                      "fix_security_issues", content)
    ELSE state

fix_security_issues(state, l, r) ==
    IF ~Truthy(state.feedback) THEN [state EXCEPT !.stage = "Security Review"]
    ELSE IF l THEN
        IF r.exc THEN state
        ELSE LET content == clean_llm_code_output(r.content, state.target_language)
             IN  Hist([state EXCEPT !.code = content, !.decision = "none",
                                    !.feedback = None, !.stage = "Security Review"],
                      "fix_security_issues", content)
    ELSE state

\* write_test_cases moving on to the review without a service to write them
write_test_cases_advances_unavailable(state, l, r) ==
    IF l THEN
        IF r.exc THEN state
        ELSE LET content == clean_llm_code_output(r.content, state.target_language)
             IN  Hist([state EXCEPT !.test_cases = content, !.stage = "Test Case Review"],
                      "write_test_cases", content)
    ELSE [state EXCEPT !.stage = "Test Case Review"]

write_test_cases(state, l, r) ==
    IF l THEN
        IF r.exc THEN state
        ELSE LET content == clean_llm_code_output(r.content, state.target_language)
             IN  Hist([state EXCEPT !.test_cases = content, !.stage = "Test Case Review"],
                      "write_test_cases", content)
    ELSE state

review_test_cases(state, l, r) ==
    IF l THEN
        IF r.exc THEN state
        ELSE LET content == lower(strip(r.content))
                 unclear == <<"LLM response unclear (">> \o state.target_language
                            \o <<" Test Review), please manually review and revise: '">>
                            \o content \o <<"'">>
             IN  Hist(IF content = W_approved
                          THEN [state EXCEPT !.decision = "approved", !.feedback = None]
                      ELSE IF startswith(content, W_feedback)
                          THEN [state EXCEPT !.decision = "feedback",
                                             !.feedback = strip(split1(content, W_feedback))]
                      ELSE [state EXCEPT !.decision = "feedback", !.feedback = unclear],
                      "review_test_cases", r.content)
    ELSE state

\* fix_test_cases storing its answer as the code as well
fix_test_cases_rewrites_code(state, l, r) ==
    IF l /\ Truthy(state.feedback) THEN
        IF r.exc THEN state
        ELSE LET content == clean_llm_code_output(r.content, state.target_language)
             IN  Hist([state EXCEPT !.test_cases = content, !.code = content,
                                    !.decision = "none",
                                    !.feedback = None, !.stage = "Test Case Review"],
                      "fix_test_cases", content)
    ELSE IF ~Truthy(state.feedback) THEN
        Hist([state EXCEPT !.stage = "Test Case Review"], "fix_test_cases",
             <<"No feedback provided. Skipping test case fixing.">>)
    ELSE state

fix_test_cases(state, l, r) ==
    IF l /\ Truthy(state.feedback) THEN
        IF r.exc THEN state
        ELSE LET content == clean_llm_code_output(r.content, state.target_language)
             IN  Hist([state EXCEPT !.test_cases = content, !.decision = "none",
                                    !.feedback = None, !.stage = "Test Case Review"],
                      "fix_test_cases", content)
    ELSE IF ~Truthy(state.feedback) THEN
        Hist([state EXCEPT !.stage = "Test Case Review"], "fix_test_cases",
             <<"No feedback provided. Skipping test case fixing.">>)
    ELSE state

\* The if/elif/else of qa_testing on the judge's text (both revisions)
ParseQA(state, content) ==
    IF startswith(content, W_PASS)
        THEN [state EXCEPT !.decision = "passed",
                           !.feedback = strip(split1(content, W_PASS))]
    ELSE IF startswith(content, W_FAIL)
        THEN [state EXCEPT !.decision = "failed",
                           !.feedback = strip(split1(content, W_FAIL))]
    ELSE [state EXCEPT !.decision = "failed",
                       !.feedback = <<"AI QA analysis returned an unexpected response: '">>
                                    \o content
                                    \o <<"'. Manual review recommended.">>]

\* qa_testing simulating a pass without looking for code and test cases
qa_testing_simulates_without_inputs(state, l, r) ==
    IF l /\ (~Truthy(state.code) \/ ~Truthy(state.test_cases)) THEN
        [state EXCEPT !.decision = "failed",
                      !.feedback = <<"Code or test cases not found.">>,
                      !.stage = "QA Testing"]
    ELSE IF l THEN
        IF r.exc THEN
            [state EXCEPT !.decision = "error",
                          !.feedback = <<"Error during AI QA analysis: ">> \o r.content
                                       \o <<". Manual review required.">>,
                          !.history = Append(@, <<"qa_testing_error", r.content>>),
                          !.stage = "QA Testing"]
        ELSE LET content == strip(r.content)
             IN  [ParseQA(state, content)
                    EXCEPT !.history = Append(@, <<"qa_testing_result", content>>),
                           !.stage = "QA Testing"]
    ELSE [state EXCEPT !.decision = "passed",
                       !.feedback = <<"Basic QA simulation passed.">>,
                       !.history = Append(@, <<"qa_testing_simulation",
                                                <<"Basic QA simulation passed.">>>>),
                       !.stage = "QA Testing"]

\* qa_testing of streamlit_final.py; show_llm_details is False in every run
qa_testing(state, l, r) ==
    IF ~Truthy(state.code) \/ ~Truthy(state.test_cases) THEN
        [state EXCEPT !.decision = "failed",
                      !.feedback = <<"Code or test cases not found.">>,
                      !.stage = "QA Testing"]
    ELSE IF l THEN
        IF r.exc THEN
            [state EXCEPT !.decision = "error",
                          !.feedback = <<"Error during AI QA analysis: ">> \o r.content
                                       \o <<". Manual review required.">>,
                          !.history = Append(@, <<"qa_testing_error", r.content>>),
                          !.stage = "QA Testing"]
        ELSE LET content == strip(r.content)
             IN  [ParseQA(state, content)
                    EXCEPT !.history = Append(@, <<"qa_testing_result", content>>),
                           !.stage = "QA Testing"]
    ELSE [state EXCEPT !.decision = "passed",
                       !.feedback = <<"Basic QA simulation passed.">>,
                       !.history = Append(@, <<"qa_testing_simulation",
                                                <<"Basic QA simulation passed.">>>>),
                       !.stage = "QA Testing"]

\* qa_testing of streamlit.py taking every answer but FAIL: for a pass
qa_testing_v1_passes_unexpected(state, l, r) ==
    IF ~Truthy(state.code) \/ ~Truthy(state.test_cases) THEN
        [state EXCEPT !.decision = "failed",
                      !.feedback = <<"Code or test cases not found.">>,
                      !.stage = "QA Testing"]
    ELSE IF l THEN
        IF r.exc THEN state
        ELSE IF startswith(strip(r.content), W_FAIL)
            THEN [ParseQA(state, strip(r.content)) EXCEPT !.stage = "QA Testing"]
        ELSE [state EXCEPT !.decision = "passed", !.feedback = strip(r.content),
                           !.stage = "QA Testing"]
    ELSE [state EXCEPT !.decision = "passed",
                       !.feedback = <<"Basic QA simulation passed.">>,
                       !.stage = "QA Testing"]

\* qa_testing of streamlit.py: no try/except, no history
qa_testing_v1(state, l, r) ==
    IF ~Truthy(state.code) \/ ~Truthy(state.test_cases) THEN
        [state EXCEPT !.decision = "failed",
                      !.feedback = <<"Code or test cases not found.">>,
                      !.stage = "QA Testing"]
    ELSE IF l THEN
        IF r.exc THEN state
        ELSE [ParseQA(state, strip(r.content)) EXCEPT !.stage = "QA Testing"]
    ELSE [state EXCEPT !.decision = "passed",
                       !.feedback = <<"Basic QA simulation passed.">>,
                       !.stage = "QA Testing"]

\* deploy of streamlit_final.py.  With decision != "passed" and feedback None
\* the concatenation on line 1242 raises TypeError after stage was assigned.
deploy(state, l, r) ==
    IF state.decision # "passed" THEN
        IF state.feedback = None
            THEN [state EXCEPT !.stage = "Deployment Failed"]
        ELSE [state EXCEPT !.stage = "Deployment Failed",
                           !.feedback = <<"Deployment halted due to failed QA testing. Reason: ">>
                                        \o state.feedback]
    ELSE IF l THEN
        IF r.exc THEN
            [state EXCEPT !.deployment_reasoning = <<"Error during AI deployment reasoning: ">>
                                                    \o r.content,
                          !.history = Append(@, <<"deploy", <<"Error during LLM reasoning: ">>
                                                               \o r.content>>),
                          !.stage = "Deployed"]
        ELSE LET reasoning == strip(r.content)
             IN  [state EXCEPT !.deployment_reasoning = reasoning,
                               !.history = Append(@, <<"deploy", reasoning>>),
                               !.stage = "Deployed"]
    ELSE [state EXCEPT !.deployment_reasoning =
                            <<"Basic deployment simulation successful as QA passed.">>,
                       !.history = Append(@, <<"deploy",
                            <<"Basic deployment simulation successful as QA passed.">>>>),
                       !.stage = "Deployed"]

\* deploy of streamlit.py
deploy_v1(state, l, r) == [state EXCEPT !.stage = "Deployed"]

----------------------------------------------------------------------------
(* Inputs: what the user types and what the Generation Service answers *)

Exc(msg) == [exc |-> TRUE, content |-> msg]
Ok(text) == [exc |-> FALSE, content |-> text]
NoResp == [exc |-> FALSE, content |-> None]      \* llm.invoke was not reached

ServiceError == Exc(<<"service error">>)

\* Texts typed into "Describe the software you want to build"
RequirementInputs == {NoText, <<"r">>}
\* Texts typed into "Target Programming Language"
LanguageInputs == {NoText, <<" ">>, <<"G", "o">>}
\* Texts typed into a manual feedback box
FeedbackInputs == {NoText, <<"m">>}

\* Answers to a generation prompt whose text is stored as it is
GenContents == {<<"x">>}
\* Answers to a code or test generation prompt: plain text, and a bare fence
CodeContents == {<<"x">>, Fence}
\* Answers to a revision or fix prompt
ReviseContents == {<<"y">>}

R_approved == W_approved
R_approved_rationale == W_approved \o <<":", " ", "o", "k">>
R_approved_question == W_approved \o <<"?", " ", "n", "o">>
R_feedback == W_feedback \o <<" ", "f", "i", "x">>
R_feedback_empty == W_feedback
R_unclear == <<"M", "a", "y", "b", "e", " ", "O", "K">>

\* Answers to a review prompt
ReviewContents ==
    {R_approved, R_approved_rationale, R_approved_question,
     R_feedback, R_feedback_empty, R_unclear}

R_pass == W_PASS \o <<" ", "o", "k">>
R_fail == W_FAIL \o <<" ", "b", "a", "d">>
R_pass_lower == <<"p", "a", "s", "s">>

\* Answers to the QA prompt
QAContents == {R_pass, R_fail, R_pass_lower}

\* Answers to the deployment prompt
DeployContents == {<<"d">>}

\* The responses one llm.invoke can produce
Outcomes(contents) == {Ok(c) : c \in contents} \cup {ServiceError}

----------------------------------------------------------------------------
(* Which handlers reach llm.invoke, and which let an exception escape *)

Invokes(h, state, l) ==
    CASE h \in {"generate_user_stories", "product_owner_review", "create_design_docs",
                "design_review", "code_review", "write_test_cases",
                "review_test_cases"} -> l
      [] h \in {"revise_user_stories", "revise_design_docs", "fix_code_review",
                "fix_security_issues", "fix_test_cases"} -> l /\ Truthy(state.feedback)
      [] h = "generate_code" -> l /\ Truthy(state.target_language)
      [] h = "security_review" -> l /\ Truthy(state.code)
      [] h = "qa_testing" -> l /\ Truthy(state.code) /\ Truthy(state.test_cases)
      [] h = "deploy" -> IF rev = "final" THEN l /\ state.decision = "passed" ELSE FALSE

\* The handler ends in an uncaught exception (the script run stops there)
Raises(h, state, l, r) ==
    CASE h = "qa_testing" -> rev = "v1" /\ Invokes(h, state, l) /\ r.exc
      [] h = "deploy" -> rev = "final" /\ state.decision # "passed" /\ state.feedback = None
      [] OTHER -> Invokes(h, state, l) /\ r.exc

\* The responses to choose from in a run of handler h
Responses(h, state, l, contents) ==
    IF Invokes(h, state, l) THEN Outcomes(contents) ELSE {NoResp}

----------------------------------------------------------------------------
(* The script run *)

AutomaticStages ==
    {"Generate User Stories", "Revise User Stories", "Create Design Docs",
     "Revise Design Docs", "Generate Code", "Fix Code Review", "Fix Security",
     "Write Test Cases", "Fix Test Cases", "QA Testing", "Deploy"}

Init ==
    /\ rev = "final"
    /\ app_state = InitialState
    /\ show_feedback_box = FALSE
    /\ llm = FALSE
    /\ rerun = FALSE
    /\ turn = [op |-> "init", llm |-> FALSE, invoked |-> FALSE, resp |-> NoResp,
               raised |-> FALSE, pre |-> InitialState,
               tests_after_code |-> FALSE, qa_failed |-> FALSE]

\* streamlit.py constructs its client at import: llm is never None
InitV1 ==
    /\ rev = "v1"
    /\ app_state = InitialState
    /\ show_feedback_box = FALSE
    /\ llm = TRUE
    /\ rerun = FALSE
    /\ turn = [op |-> "init", llm |-> TRUE, invoked |-> FALSE, resp |-> NoResp,
               raised |-> FALSE, pre |-> InitialState,
               tests_after_code |-> FALSE, qa_failed |-> FALSE]

\* The value of llm the sidebar computes in this run: the API key widget keeps
\* its value across st.rerun(); between runs the user may edit it
SidebarLlm ==
    IF rev = "v1" THEN {TRUE} ELSE IF rerun THEN {llm} ELSE BOOLEAN

HistoryRoom == Len(app_state.history) < MaxHistory

\* The handlers that write code, and those that write test_cases.  The turn
\* record carries tests_after_code (test_cases were written since the last
\* write to code) and qa_failed (a QA evaluation has failed since the reset).
CodeWriters == {"generate_code", "fix_code_review", "fix_security_issues"}

TestWriters == {"write_test_cases", "fix_test_cases"}

\* End of a run that executed handler h with response r
EndRun(op, h, l, r, post, rr) ==
    /\ app_state' = post
    /\ llm' = l
    /\ rerun' = rr
    /\ turn' = [op |-> op, llm |-> l, invoked |-> Invokes(h, app_state, l), resp |-> r,
                raised |-> Raises(h, app_state, l, r), pre |-> app_state,
                tests_after_code |->
                    IF Invokes(h, app_state, l) /\ ~r.exc /\ h \in CodeWriters THEN FALSE
                    ELSE IF Invokes(h, app_state, l) /\ ~r.exc /\ h \in TestWriters THEN TRUE
                    ELSE turn.tests_after_code,
                qa_failed |-> turn.qa_failed
                              \/ (h = "qa_testing" /\ ~Raises(h, app_state, l, r)
                                     /\ post.decision # "passed")]

\* End of a run that executed no handler (a button that only assigns)
EndManual(op, post, rr) ==
    /\ app_state' = post
    /\ llm' = llm
    /\ rerun' = rr
    /\ turn' = [op |-> op, llm |-> llm, invoked |-> FALSE, resp |-> NoResp,
                raised |-> FALSE, pre |-> app_state,
                tests_after_code |-> IF op = "reset" THEN FALSE ELSE turn.tests_after_code,
                qa_failed |-> IF op = "reset" THEN FALSE ELSE turn.qa_failed]

\* "Start SDLC Process"
StartSDLC ==
    /\ app_state.stage = "User Input"
    /\ ~rerun
    /\ \E user_input_area \in RequirementInputs, target_lang_input \in LanguageInputs :
          IF user_input_area # NoText /\ target_lang_input # NoText
              THEN EndManual("start",
                       [app_state EXCEPT !.user_input = user_input_area,
                                         !.target_language = lower(strip(target_lang_input)),
                                         !.stage = "Generate User Stories"], TRUE)
              ELSE EndManual("start", app_state, FALSE)
    /\ UNCHANGED <<rev, show_feedback_box>>

\* The call handler(current_state) of the dispatch branches, by handler name
Handler(h, state, l, r) ==
    CASE h = "generate_user_stories" -> generate_user_stories(state, l, r)
      [] h = "product_owner_review" -> product_owner_review(state, l, r)
      [] h = "revise_user_stories" -> revise_user_stories(state, l, r)
      [] h = "create_design_docs" -> create_design_docs(state, l, r)
      [] h = "design_review" -> design_review(state, l, r)
      [] h = "revise_design_docs" -> revise_design_docs(state, l, r)
      [] h = "generate_code" -> generate_code(state, l, r)
      [] h = "code_review" -> code_review(state, l, r)
      [] h = "fix_code_review" -> fix_code_review(state, l, r)
      [] h = "security_review" -> security_review(state, l, r)
      [] h = "fix_security_issues" -> fix_security_issues(state, l, r)
      [] h = "write_test_cases" -> write_test_cases(state, l, r)
      [] h = "review_test_cases" -> review_test_cases(state, l, r)
      [] h = "fix_test_cases" -> fix_test_cases(state, l, r)
      [] h = "qa_testing" -> IF rev = "final" THEN qa_testing(state, l, r)
                             ELSE qa_testing_v1(state, l, r)
      [] h = "deploy" -> IF rev = "final" THEN deploy(state, l, r)
                         ELSE deploy_v1(state, l, r)

\* A dispatch branch of the form  app_state = handler(current_state); st.rerun()
AutoBranch(stageName, h, contents) ==
    /\ app_state.stage = stageName
    /\ HistoryRoom
    /\ \E l \in SidebarLlm :
          \E r \in Responses(h, app_state, l, contents) :
              EndRun(h, h, l, r, Handler(h, app_state, l, r), ~Raises(h, app_state, l, r))
    /\ UNCHANGED <<rev, show_feedback_box>>

GenerateUserStoriesBranch ==
    AutoBranch("Generate User Stories", "generate_user_stories", GenContents)

ReviseUserStoriesBranch ==
    AutoBranch("Revise User Stories", "revise_user_stories", ReviseContents)

CreateDesignDocsBranch ==
    AutoBranch("Create Design Docs", "create_design_docs", GenContents)

ReviseDesignDocsBranch ==
    AutoBranch("Revise Design Docs", "revise_design_docs", ReviseContents)

GenerateCodeBranch ==
    AutoBranch("Generate Code", "generate_code", CodeContents)

FixCodeReviewBranch ==
    AutoBranch("Fix Code Review", "fix_code_review", ReviseContents)

FixSecurityBranch ==
    AutoBranch("Fix Security", "fix_security_issues", ReviseContents)

WriteTestCasesBranch ==
    AutoBranch("Write Test Cases", "write_test_cases", CodeContents)

FixTestCasesBranch ==
    AutoBranch("Fix Test Cases", "fix_test_cases", ReviseContents)

\* The if/elif sending approved test cases straight to Deploy
ReviewDispatch_skips_qa(s1, onApproved, onFeedback) ==
    IF s1.decision = "approved"
        THEN [s1 EXCEPT !.stage = IF onApproved = "QA Testing" THEN "Deploy" ELSE onApproved]
    ELSE IF s1.decision = "feedback" THEN [s1 EXCEPT !.stage = onFeedback]
    ELSE s1

\* The if/elif on decision that follows the handler in an "Ask AI" branch
ReviewDispatch(s1, onApproved, onFeedback) ==
    IF s1.decision = "approved" THEN [s1 EXCEPT !.stage = onApproved]
    ELSE IF s1.decision = "feedback" THEN [s1 EXCEPT !.stage = onFeedback]
    ELSE s1

\* "Ask AI to review": the handler, then the if/elif on decision, then st.rerun()
AIReviewButton(stageName, h, onApproved, onFeedback) ==
    /\ app_state.stage = stageName
    /\ ~rerun
    /\ HistoryRoom
    /\ \E r \in Responses(h, app_state, llm, ReviewContents) :
          LET s1 == Handler(h, app_state, llm, r)
              s2 == ReviewDispatch(s1, onApproved, onFeedback)
          IN  IF Raises(h, app_state, llm, r)
                  THEN EndRun(h, h, llm, r, s1, FALSE)
                  ELSE EndRun(h, h, llm, r, s2, TRUE)
    /\ UNCHANGED <<rev, show_feedback_box>>

\* "Approve Manually" leaving the earlier feedback in place
ApproveButton_keeps_feedback(stageName, op, onApproved) ==
    /\ app_state.stage = stageName
    /\ ~rerun
    /\ EndManual(op, [app_state EXCEPT !.decision = "approved", !.stage = onApproved], TRUE)
    /\ show_feedback_box' = FALSE
    /\ UNCHANGED rev

\* "Approve Manually"
ApproveButton(stageName, op, onApproved) ==
    /\ app_state.stage = stageName
    /\ ~rerun
    /\ EndManual(op, [app_state EXCEPT !.decision = "approved", !.feedback = None,
                                       !.stage = onApproved], TRUE)
    /\ show_feedback_box' = FALSE
    /\ UNCHANGED rev

\* "Provide Feedback Manually": opens the feedback box; the Code, Security and
\* Test Case Review branches call st.rerun() after it, the first two do not
FeedbackButton(stageName, rr) ==
    /\ app_state.stage = stageName
    /\ ~rerun
    /\ ~show_feedback_box
    /\ show_feedback_box' = TRUE
    /\ rerun' = rr
    /\ UNCHANGED <<rev, app_state, llm, turn>>

\* "Submit Feedback" without the test for an empty text
SubmitFeedbackButton_accepts_empty(stageName, op, onFeedback) ==
    /\ app_state.stage = stageName
    /\ ~rerun
    /\ show_feedback_box
    /\ \E feedback_text \in FeedbackInputs :
          /\ EndManual(op, [app_state EXCEPT !.decision = "feedback",
                                             !.feedback = feedback_text,
                                             !.stage = onFeedback], TRUE)
          /\ show_feedback_box' = FALSE
    /\ UNCHANGED rev

\* "Submit Feedback" in the open feedback box
SubmitFeedbackButton(stageName, op, onFeedback) ==
    /\ app_state.stage = stageName
    /\ ~rerun
    /\ show_feedback_box
    /\ \E feedback_text \in FeedbackInputs :
          IF feedback_text # NoText
              THEN /\ EndManual(op, [app_state EXCEPT !.decision = "feedback",
                                                      !.feedback = feedback_text,
                                                      !.stage = onFeedback], TRUE)
                   /\ show_feedback_box' = FALSE
              ELSE /\ EndManual(op, app_state, FALSE)
                   /\ UNCHANGED show_feedback_box
    /\ UNCHANGED rev

ProductOwnerReviewBranch ==
    \/ AIReviewButton("Product Owner Review", "product_owner_review",
                      "Create Design Docs", "Revise User Stories")
    \/ ApproveButton("Product Owner Review", "po_approve", "Create Design Docs")
    \/ FeedbackButton("Product Owner Review", FALSE)
    \/ SubmitFeedbackButton("Product Owner Review", "po_submit_feedback", "Revise User Stories")

DesignReviewBranch ==
    \/ AIReviewButton("Design Review", "design_review",
                      "Generate Code", "Revise Design Docs")
    \/ ApproveButton("Design Review", "design_approve", "Generate Code")
    \/ FeedbackButton("Design Review", FALSE)
    \/ SubmitFeedbackButton("Design Review", "design_submit_feedback", "Revise Design Docs")

CodeReviewBranch ==
    \/ AIReviewButton("Code Review", "code_review",
                      "Security Review", "Fix Code Review")
    \/ ApproveButton("Code Review", "code_approve", "Security Review")
    \/ FeedbackButton("Code Review", TRUE)
    \/ SubmitFeedbackButton("Code Review", "code_submit_feedback", "Fix Code Review")

SecurityReviewBranch ==
    \/ AIReviewButton("Security Review", "security_review",
                      "Write Test Cases", "Fix Security")
    \/ ApproveButton("Security Review", "sec_approve", "Write Test Cases")
    \/ FeedbackButton("Security Review", TRUE)
    \/ SubmitFeedbackButton("Security Review", "sec_submit_feedback", "Fix Security")

TestCaseReviewBranch ==
    \/ AIReviewButton("Test Case Review", "review_test_cases",
                      "QA Testing", "Fix Test Cases")
    \/ ApproveButton("Test Case Review", "test_approve", "QA Testing")
    \/ FeedbackButton("Test Case Review", TRUE)
    \/ SubmitFeedbackButton("Test Case Review", "test_submit_feedback", "Fix Test Cases")

\* QADispatch with the loop back of streamlit.py in both revisions
QADispatch_to_code_review(s1) ==
    IF s1.decision = "passed" THEN [s1 EXCEPT !.stage = "Deploy"]
    ELSE [s1 EXCEPT !.stage = "Code Review"]

\* The if/else on decision that follows qa_testing in the QA Testing branch:
\* streamlit_final.py loops back to Generate Code, streamlit.py to Code Review
QADispatch(s1) ==
    IF s1.decision = "passed" THEN [s1 EXCEPT !.stage = "Deploy"]
    ELSE IF rev = "final" THEN [s1 EXCEPT !.stage = "Generate Code"]
    ELSE [s1 EXCEPT !.stage = "Code Review"]

\* The QA Testing branch: the handler, then the if/else on decision; no st.rerun()
QATestingBranch ==
    /\ app_state.stage = "QA Testing"
    /\ HistoryRoom
    /\ \E l \in SidebarLlm :
          \E r \in Responses("qa_testing", app_state, l, QAContents) :
              LET s1 == Handler("qa_testing", app_state, l, r)
                  s2 == QADispatch(s1)
              IN  IF Raises("qa_testing", app_state, l, r)
                      THEN EndRun("qa_testing", "qa_testing", l, r, s1, FALSE)
                      ELSE EndRun("qa_testing", "qa_testing", l, r, s2, FALSE)
    /\ UNCHANGED <<rev, show_feedback_box>>

\* The Deploy branch: the handler, then stage = "Deployed"; no st.rerun()
DeployBranch ==
    /\ app_state.stage = "Deploy"
    /\ HistoryRoom
    /\ \E l \in SidebarLlm :
          \E r \in Responses("deploy", app_state, l, DeployContents) :
              LET s1 == Handler("deploy", app_state, l, r)
              IN  IF Raises("deploy", app_state, l, r)
                      THEN EndRun("deploy", "deploy", l, r, s1, FALSE)
                      ELSE EndRun("deploy", "deploy", l, r, [s1 EXCEPT !.stage = "Deployed"], FALSE)
    /\ UNCHANGED <<rev, show_feedback_box>>

\* "Start New Workflow" carrying the deployment reasoning over
Reset_keeps_reasoning ==
    /\ app_state.stage = "Deployed"
    /\ ~rerun
    /\ EndManual("reset", [InitialState EXCEPT !.deployment_reasoning =
                                                   app_state.deployment_reasoning], TRUE)
    /\ show_feedback_box' = FALSE
    /\ UNCHANGED rev

\* "Start New Workflow"
Reset ==
    /\ app_state.stage = "Deployed"
    /\ ~rerun
    /\ EndManual("reset", InitialState, TRUE)
    /\ show_feedback_box' = FALSE
    /\ UNCHANGED rev

\* A run at Deployed that starts the deployment again
Render_redeploys ==
    /\ app_state.stage \notin AutomaticStages
    /\ \E l \in SidebarLlm : llm' = l
    /\ rerun' = FALSE
    /\ app_state' = IF app_state.stage = "Deployed" THEN [app_state EXCEPT !.stage = "Deploy"]
                    ELSE app_state
    /\ UNCHANGED <<rev, show_feedback_box, turn>>

\* A run in which no branch acts: the rerun after a button in a stage that
\* waits for the user, or the user editing the API key there
Render ==
    /\ app_state.stage \notin AutomaticStages
    /\ \E l \in SidebarLlm : llm' = l
    /\ rerun' = FALSE
    /\ UNCHANGED <<rev, app_state, show_feedback_box, turn>>

Next ==
    \/ StartSDLC
    \/ GenerateUserStoriesBranch
    \/ ProductOwnerReviewBranch
    \/ ReviseUserStoriesBranch
    \/ CreateDesignDocsBranch
    \/ DesignReviewBranch
    \/ ReviseDesignDocsBranch
    \/ GenerateCodeBranch
    \/ CodeReviewBranch
    \/ FixCodeReviewBranch
    \/ SecurityReviewBranch
    \/ FixSecurityBranch
    \/ WriteTestCasesBranch
    \/ TestCaseReviewBranch
    \/ FixTestCasesBranch
    \/ QATestingBranch
    \/ DeployBranch
    \/ Reset
    \/ Render

Spec == Init /\ [][Next]_vars

SpecV1 == InitV1 /\ [][Next]_vars

\* Weak fairness of the turns: a pending rerun is run, and a user who could
\* press a button of the current stage eventually presses one
Fairness ==
    /\ WF_vars(StartSDLC)
    /\ WF_vars(GenerateUserStoriesBranch)
    /\ WF_vars(ProductOwnerReviewBranch)
    /\ WF_vars(ReviseUserStoriesBranch)
    /\ WF_vars(CreateDesignDocsBranch)
    /\ WF_vars(DesignReviewBranch)
    /\ WF_vars(ReviseDesignDocsBranch)
    /\ WF_vars(GenerateCodeBranch)
    /\ WF_vars(CodeReviewBranch)
    /\ WF_vars(FixCodeReviewBranch)
    /\ WF_vars(SecurityReviewBranch)
    /\ WF_vars(FixSecurityBranch)
    /\ WF_vars(WriteTestCasesBranch)
    /\ WF_vars(TestCaseReviewBranch)
    /\ WF_vars(FixTestCasesBranch)
    /\ WF_vars(QATestingBranch)
    /\ WF_vars(DeployBranch)
    /\ WF_vars(Render)

\* The runs of streamlit.py under fair turns; streamlit.py keeps no history,
\* so its runs are not cut by MaxHistory
SpecV1Live == InitV1 /\ [][Next]_vars /\ Fairness

\* The Deploy branch as a function of the record it is given: every decision
\* and feedback value a record can carry, on a record that has its artifacts
Decisions == {"none", "approved", "feedback", "passed", "failed", "error"}

DeployEntry(d, f) ==
    [stage |-> "Deploy", user_input |-> <<"r">>, target_language |-> <<"g", "o">>,
     user_stories |-> <<"x">>, design_docs |-> <<"x">>, code |-> <<"x">>,
     test_cases |-> <<"x">>, decision |-> d, feedback |-> f,
     history |-> << <<"generate_user_stories", <<"x">>>>, <<"create_design_docs", <<"x">>>>,
                    <<"generate_code", <<"x">>>>, <<"write_test_cases", <<"x">>>> >>,
     deployment_reasoning |-> Absent]

InitDeploy ==
    /\ rev = "final"
    /\ \E d \in Decisions, f \in {None, NoText, <<"b", "a", "d">>} :
          app_state = DeployEntry(d, f)
    /\ show_feedback_box = FALSE
    /\ llm \in BOOLEAN
    /\ rerun = FALSE
    /\ turn = [op |-> "init", llm |-> FALSE, invoked |-> FALSE, resp |-> NoResp,
               raised |-> FALSE, pre |-> InitialState,
               tests_after_code |-> TRUE, qa_failed |-> FALSE]

SpecDeploy == InitDeploy /\ [][Next]_vars

----------------------------------------------------------------------------
(* Vocabulary of the properties *)

ReviewStages ==
    {"Product Owner Review", "Design Review", "Code Review", "Security Review",
     "Test Case Review"}

ReviewHandlers ==
    {"product_owner_review", "design_review", "code_review", "security_review",
     "review_test_cases"}

RevisionHandlers ==
    {"revise_user_stories", "revise_design_docs", "fix_code_review",
     "fix_security_issues", "fix_test_cases"}

GenerationHandlers ==
    {"generate_user_stories", "create_design_docs", "generate_code", "write_test_cases"}

ApproveOps == {"po_approve", "design_approve", "code_approve", "sec_approve", "test_approve"}

SubmitOps ==
    {"po_submit_feedback", "design_submit_feedback", "code_submit_feedback",
     "sec_submit_feedback", "test_submit_feedback"}

\* The transition table of the specification (section 4.1)
DeclaredSuccessors(s) ==
    CASE s = "User Input" -> {"Generate User Stories"}
      [] s = "Generate User Stories" -> {"Product Owner Review"}
      [] s = "Product Owner Review" -> {"Create Design Docs", "Revise User Stories"}
      [] s = "Revise User Stories" -> {"Product Owner Review"}
      [] s = "Create Design Docs" -> {"Design Review"}
      [] s = "Design Review" -> {"Generate Code", "Revise Design Docs"}
      [] s = "Revise Design Docs" -> {"Design Review"}
      [] s = "Generate Code" -> {"Code Review", "User Input"}
      [] s = "Code Review" -> {"Security Review", "Fix Code Review"}
      [] s = "Fix Code Review" -> {"Code Review"}
      [] s = "Security Review" -> {"Write Test Cases", "Fix Security"}
      [] s = "Fix Security" -> {"Security Review"}
      [] s = "Write Test Cases" -> {"Test Case Review"}
      [] s = "Test Case Review" -> {"QA Testing", "Fix Test Cases"}
      [] s = "Fix Test Cases" -> {"Test Case Review"}
      [] s = "QA Testing" -> {"Deploy", "Generate Code"}
      [] s = "Deploy" -> {"Deployed", "Deployment Failed"}
      [] OTHER -> {}

\* The review stage a revision handler returns to
ReviewStageOf(h) ==
    CASE h = "revise_user_stories" -> "Product Owner Review"
      [] h = "revise_design_docs" -> "Design Review"
      [] h = "fix_code_review" -> "Code Review"
      [] h = "fix_security_issues" -> "Security Review"
      [] h = "fix_test_cases" -> "Test Case Review"

\* The stage a review stage leads to on approved, and on feedback
ApprovedSuccessor(s) ==
    CASE s = "Product Owner Review" -> "Create Design Docs"
      [] s = "Design Review" -> "Generate Code"
      [] s = "Code Review" -> "Security Review"
      [] s = "Security Review" -> "Write Test Cases"
      [] s = "Test Case Review" -> "QA Testing"

FeedbackSuccessor(s) ==
    CASE s = "Product Owner Review" -> "Revise User Stories"
      [] s = "Design Review" -> "Revise Design Docs"
      [] s = "Code Review" -> "Fix Code Review"
      [] s = "Security Review" -> "Fix Security"
      [] s = "Test Case Review" -> "Fix Test Cases"

ArtifactsOf(state) ==
    <<state.user_stories, state.design_docs, state.code, state.test_cases>>

\* The last run executed handler h to its end on the service's answer
Answered == turn.invoked /\ ~turn.resp.exc

\* The reviewer's answer as the handlers read it
Normalised == lower(strip(turn.resp.content))

\* The preconditions of an automatic handler other than the service itself
PreconditionsMet(h, state) ==
    CASE h \in RevisionHandlers -> Truthy(state.feedback)
      [] h = "generate_code" -> Truthy(state.target_language)
      [] h = "qa_testing" -> Truthy(state.code) /\ Truthy(state.test_cases)
      [] h = "deploy" -> state.decision = "passed"
      [] OTHER -> TRUE

----------------------------------------------------------------------------
(* Properties *)

\* C1: every turn other than reset started in stage s ends in s or in one of
\* the declared successors of s in the transition table.
C1_DeclaredSuccessorsOnly ==
    turn.op \notin {"init", "reset"} =>
        app_state.stage \in {turn.pre.stage} \cup DeclaredSuccessors(turn.pre.stage)

\* C2: a review stage is left only in a turn that produced a verdict itself:
\* an answer of the reviewer, a manual approve or a non-empty manual feedback.
C2_ReviewLeftOnlyOnVerdict ==
    (turn.pre.stage \in ReviewStages /\ app_state.stage # turn.pre.stage) =>
        \/ turn.op \in ApproveOps \cup SubmitOps
        \/ turn.op \in ReviewHandlers /\ Answered

C5_QAFailureToGenerateCode ==
    (turn.op = "qa_testing" /\ app_state.decision = "failed") =>
        app_state.stage = "Generate Code"

\* The service judged FAIL and the turn looped back
C5_Witness ==
    /\ turn.op = "qa_testing" /\ Answered /\ startswith(turn.resp.content, W_FAIL)
    /\ app_state.decision = "failed"
    /\ app_state.stage = "Generate Code"

\* C6: a revision handler run with feedback absent changes nothing in the
\* record except stage: artifacts and the length of history stay as they were.
C6_SkipChangesOnlyStage ==
    (turn.op \in RevisionHandlers /\ ~Truthy(turn.pre.feedback)) =>
        /\ ArtifactsOf(app_state) = ArtifactsOf(turn.pre)
        /\ Len(app_state.history) = Len(turn.pre.history)
        /\ app_state = [turn.pre EXCEPT !.stage = app_state.stage]

\* C7: a revision handler run with feedback absent makes no call to the
\* service and ends in its own review stage, with or without the service.
C7_SkipRoutesToReviewWithoutCall ==
    (turn.op \in RevisionHandlers /\ ~Truthy(turn.pre.feedback)) =>
        /\ ~turn.invoked
        /\ ~turn.raised
        /\ app_state.stage = ReviewStageOf(turn.op)

\* A skipped revision in a run where the service was available
C7_Witness ==
    /\ turn.op \in RevisionHandlers /\ ~Truthy(turn.pre.feedback)
    /\ turn.llm
    /\ app_state.stage = ReviewStageOf(turn.op)

\* C8: a reviewer's answer that starts with neither approved nor feedback:
\* sets decision = feedback, keeps the raw answer in feedback and routes to
\* the revision stage.
C8_UnclearAnswerKeptRaw ==
    (turn.op \in ReviewHandlers /\ Answered
        /\ ~startswith(Normalised, W_approved) /\ ~startswith(Normalised, W_feedback)) =>
        /\ app_state.decision = "feedback"
        /\ Contains(app_state.feedback, turn.resp.content)
        /\ app_state.stage = FeedbackSuccessor(turn.pre.stage)

\* C9: only a recognised shape gives a positive verdict: a review answer sets
\* approved only if it is approved or approved: <rationale>, a QA answer sets
\* passed only if it is PASS: <rationale>.
C9_OnlyRecognisedShapesApprove ==
    /\ (turn.op \in ReviewHandlers /\ Answered /\ app_state.decision = "approved") =>
          \/ Normalised = W_approved
          \/ startswith(Normalised, W_approved \o <<":">>)
    /\ (turn.op = "qa_testing" /\ Answered /\ app_state.decision = "passed") =>
          startswith(strip(turn.resp.content), W_PASS)

\* C10: at each review stage the answers approved and approved: <rationale>
\* both set decision = approved with feedback absent and advance to the
\* approved-successor.
C10_BothApprovalShapesAccepted ==
    (turn.op \in ReviewHandlers /\ Answered
        /\ (Normalised = W_approved \/ startswith(Normalised, W_approved \o <<":">>))) =>
        /\ app_state.decision = "approved"
        /\ app_state.feedback = None
        /\ app_state.stage = ApprovedSuccessor(turn.pre.stage)

\* C11: every successful run of a generation or revision handler leaves
\* decision = none and feedback absent.
C11_GenerationClearsVerdict ==
    (turn.op \in GenerationHandlers \cup RevisionHandlers /\ Answered) =>
        /\ app_state.decision = "none"
        /\ app_state.feedback = None

\* C12: decision is always one of approved, feedback, passed, failed or none.
C12_DecisionInDeclaredValues ==
    app_state.decision \in {"approved", "feedback", "passed", "failed", "none"}

\* C13: feedback is a non-empty text exactly when decision is feedback or
\* failed, and absent when decision is approved, passed or none.
C13_FeedbackIffRevisionRequired ==
    /\ app_state.decision \in {"approved", "passed", "none"} => app_state.feedback = None
    /\ app_state.decision \in {"feedback", "failed"} => Truthy(app_state.feedback)

\* C14: Generate Code entered with the target language absent or empty makes
\* no service call, leaves code and every other artifact unchanged and ends
\* with stage = User Input; no default language is substituted.
C14_MissingLanguageReturnsToUserInput ==
    (turn.op = "generate_code" /\ ~Truthy(turn.pre.target_language)) =>
        /\ ~turn.invoked
        /\ ArtifactsOf(app_state) = ArtifactsOf(turn.pre)
        /\ app_state.history = turn.pre.history
        /\ app_state.target_language = turn.pre.target_language
        /\ app_state.stage = "User Input"

C14_Witness ==
    /\ turn.op = "generate_code"
    /\ turn.llm
    /\ turn.pre.target_language = NoText
    /\ Truthy(turn.pre.design_docs)
    /\ app_state.stage = "User Input"

\* C15: every record whose stage is not User Input has a non-empty user_input
\* and a non-empty target_language.
C15_InputsPresentPastUserInput ==
    app_state.stage # "User Input" =>
        /\ Truthy(app_state.user_input)
        /\ Truthy(app_state.target_language)

\* C16: once Start has set user_input and target_language only reset changes
\* them, and the stage is never User Input while earlier artifacts remain.
C16_InputsFixedUntilReset ==
    /\ (turn.op \notin {"init", "reset"} /\ turn.pre.target_language # None) =>
          /\ app_state.user_input = turn.pre.user_input
          /\ app_state.target_language = turn.pre.target_language
    /\ app_state.stage = "User Input" =>
          ArtifactsOf(app_state) = <<None, None, None, None>>

\* C17: a QA turn entered with code or test_cases missing ends with
\* stage = QA Testing and decision = failed.
C17_QAMissingInputsStaysInQA ==
    (turn.op = "qa_testing"
        /\ (~Truthy(turn.pre.code) \/ ~Truthy(turn.pre.test_cases))) =>
        /\ app_state.decision = "failed"
        /\ app_state.stage = "QA Testing"

\* C18: after an automatic generation or revision turn that failed or found
\* the service unavailable the stage is not advanced and no further run is
\* requested: the handler runs again only on a user event.
C18_FailedTurnWaitsForUser ==
    (/\ turn.op \in GenerationHandlers \cup RevisionHandlers
     /\ PreconditionsMet(turn.op, turn.pre)
     /\ (turn.raised \/ ~turn.llm)) =>
        /\ app_state.stage = turn.pre.stage
        /\ ~rerun

\* The artifact a review stage reviews
ReviewedArtifact(s) ==
    CASE s = "Product Owner Review" -> "user_stories"
      [] s = "Design Review" -> "design_docs"
      [] s = "Code Review" -> "code"
      [] s = "Security Review" -> "code"
      [] s = "Test Case Review" -> "test_cases"

ArtifactFields == {"user_stories", "design_docs", "code", "test_cases"}

\* C19: with the service available every feedback verdict at a review stage
\* R, by the AI reviewer or by hand, moves the stage to R's revision stage V,
\* and every turn of V moves it back to R changing no artifact but the one R
\* reviews; user_input and target_language stay as they were throughout.
C19_FeedbackLoopAlternates ==
    /\ (/\ turn.pre.stage \in ReviewStages
        /\ \/ turn.op \in ReviewHandlers /\ Answered
           \/ turn.op \in SubmitOps /\ app_state # turn.pre
        /\ app_state.decision = "feedback") =>
          /\ app_state.stage = FeedbackSuccessor(turn.pre.stage)
          /\ ArtifactsOf(app_state) = ArtifactsOf(turn.pre)
          /\ app_state.user_input = turn.pre.user_input
          /\ app_state.target_language = turn.pre.target_language
    /\ (turn.op \in RevisionHandlers /\ turn.llm /\ ~turn.raised) =>
          /\ app_state.stage = ReviewStageOf(turn.op)
          /\ \A f \in ArtifactFields \ {ReviewedArtifact(ReviewStageOf(turn.op))} :
                app_state[f] = turn.pre[f]
          /\ app_state.user_input = turn.pre.user_input
          /\ app_state.target_language = turn.pre.target_language

\* The second revision of the design documents has returned to Design Review
C19_Witness ==
    /\ turn.op = "revise_design_docs"
    /\ Answered
    /\ app_state.stage = "Design Review"
    /\ app_state.design_docs = <<"y">>
    /\ app_state.user_stories = <<"x">>
    /\ Cardinality({i \in DOMAIN app_state.history :
                       app_state.history[i][1] = "revise_design_docs"}) >= 2

\* C20: an approved verdict at Product Owner Review, by the AI reviewer or by
\* hand, sets stage = Create Design Docs, and the successful turn of
\* create_design_docs that follows stores the generated text in design_docs
\* and sets stage = Design Review with user_stories unchanged.
C20_ApprovalLeadsToDesignDocs ==
    /\ (/\ turn.pre.stage = "Product Owner Review"
        /\ \/ turn.op = "product_owner_review" /\ Answered
           \/ turn.op = "po_approve"
        /\ app_state.decision = "approved") =>
          app_state.stage = "Create Design Docs"
    /\ (turn.op = "create_design_docs" /\ Answered) =>
          /\ app_state.design_docs = turn.resp.content
          /\ app_state.stage = "Design Review"
          /\ app_state.user_stories = turn.pre.user_stories

C20_Witness ==
    /\ turn.op = "create_design_docs"
    /\ Answered
    /\ turn.pre.decision = "approved"
    /\ turn.pre.stage = "Create Design Docs"
    /\ app_state.stage = "Design Review"
    /\ app_state.design_docs = <<"x">>
    /\ \E i \in DOMAIN app_state.history :
          app_state.history[i][1] = "product_owner_review"

\* The artifact fields the prompt of a handler reads
PromptReads(h) ==
    CASE h \in {"product_owner_review", "revise_user_stories", "create_design_docs"} ->
             {"user_stories"}
      [] h \in {"design_review", "revise_design_docs", "generate_code"} ->
             {"user_stories", "design_docs"}
      [] h \in {"code_review", "fix_code_review", "security_review",
                "fix_security_issues"} -> {"design_docs", "code"}
      [] h \in {"write_test_cases", "deploy"} -> {"code"}
      [] h \in {"review_test_cases", "fix_test_cases", "qa_testing"} ->
             {"code", "test_cases"}
      [] OTHER -> {}

\* The handler that produces an artifact field
ProducerOf(f) ==
    CASE f = "user_stories" -> "generate_user_stories"
      [] f = "design_docs" -> "create_design_docs"
      [] f = "code" -> "generate_code"
      [] f = "test_cases" -> "write_test_cases"

\* Handler h has an entry in the history, which reset empties
Completed(h, history) == \E i \in DOMAIN history : history[i][1] = h

IsPrefix(s, t) == Len(s) <= Len(t) /\ SubSeq(t, 1, Len(s)) = s

\* C21: after reset the record equals the record created at process start,
\* with no field carried over from the previous run.
C21_ResetRestoresInitialRecord ==
    turn.op = "reset" =>
        /\ app_state = InitialState
        /\ DOMAIN app_state = DOMAIN InitialState
        /\ app_state.stage = "User Input"
        /\ app_state.user_input = NoText
        /\ app_state.history = << >>
        /\ app_state.deployment_reasoning = Absent

C21_Witness ==
    /\ turn.op = "reset"
    /\ turn.pre.stage = "Deployed"
    /\ turn.pre.deployment_reasoning # Absent
    /\ turn.pre.decision = "passed"
    /\ app_state.stage = "User Input"

\* C22: whenever a handler runs whose prompt reads an artifact field, the
\* handler that produces that field has completed since the last reset and
\* the field holds its text.
C22_ArtifactProducedBeforeRead ==
    \A f \in PromptReads(turn.op) :
        /\ Completed(ProducerOf(f), turn.pre.history)
        /\ turn.pre[f] # None

C22_Witness ==
    /\ turn.op = "qa_testing"
    /\ turn.invoked
    /\ Completed("generate_code", turn.pre.history)
    /\ Completed("write_test_cases", turn.pre.history)

\* C23: history is append-only: across every turn other than reset the
\* history before the turn is a prefix of the history after it.
C23_HistoryAppendOnly ==
    turn.op # "reset" => IsPrefix(turn.pre.history, app_state.history)

C23_Witness ==
    /\ turn.op = "qa_testing"
    /\ Answered
    /\ Len(turn.pre.history) >= 4
    /\ app_state.history = Append(turn.pre.history,
                                  <<"qa_testing_result", strip(turn.resp.content)>>)

\* C24: every successful run of an automatic stage handler appends a new
\* entry to history, so the history is longer after the turn than before.
C24_SuccessfulRunAppendsHistory ==
    (/\ turn.op \in GenerationHandlers \cup RevisionHandlers \cup {"qa_testing", "deploy"}
     /\ PreconditionsMet(turn.op, turn.pre)
     /\ Answered) =>
        Len(app_state.history) > Len(turn.pre.history)

\* The key of the "Approve Manually" button of a review stage
ApproveOpOf(s) ==
    CASE s = "Product Owner Review" -> "po_approve"
      [] s = "Design Review" -> "design_approve"
      [] s = "Code Review" -> "code_approve"
      [] s = "Security Review" -> "sec_approve"
      [] s = "Test Case Review" -> "test_approve"

HandlerOps ==
    GenerationHandlers \cup ReviewHandlers \cup RevisionHandlers \cup {"qa_testing", "deploy"}

StageChange(a, b) == IF a # b THEN 1 ELSE 0

\* C25: at each of the five review stages a manual approve is possible
\* whatever the service's availability and the earlier verdict, and it sets
\* decision = approved, feedback absent and stage to the approved successor.
C25_ManualApproveAlwaysWorks ==
    /\ \A s \in ReviewStages :
          (app_state.stage = s /\ ~rerun) =>
              ENABLED ApproveButton(s, ApproveOpOf(s), ApprovedSuccessor(s))
    /\ turn.op \in ApproveOps =>
          /\ turn.pre.stage \in ReviewStages
          /\ turn.op = ApproveOpOf(turn.pre.stage)
          /\ app_state.decision = "approved"
          /\ app_state.feedback = None
          /\ app_state.stage = ApprovedSuccessor(turn.pre.stage)

\* A manual approve over a standing feedback verdict, with no service
C25_Witness ==
    /\ turn.op \in ApproveOps
    /\ ~turn.llm
    /\ turn.pre.decision = "feedback"
    /\ turn.pre.feedback # None
    /\ app_state.decision = "approved"

\* C26: Deployed is terminal: once stage = Deployed no step changes the
\* record except reset, which replaces it by a fresh one at User Input.
C26_DeployedIsTerminal ==
    [][app_state.stage = "Deployed" =>
          \/ app_state' = app_state
          \/ app_state' = InitialState /\ turn'.op = "reset"]_vars

C26_Witness ==
    /\ turn.op = "reset"
    /\ turn.pre.stage = "Deployed"
    /\ Truthy(turn.pre.code)
    /\ Truthy(turn.pre.test_cases)
    /\ app_state.code = None
    /\ app_state.stage = "User Input"

\* C27: the Deploy stage is entered only with decision = passed, so deploy
\* never takes its defensive branch, and Deployed is reached only after a QA
\* evaluation that set decision = passed with no later verdict in between.
C27_DeployOnlyAfterPassedQA ==
    /\ app_state.stage = "Deploy" =>
          /\ app_state.decision = "passed"
          /\ turn.op = "qa_testing"
    /\ turn.op = "deploy" =>
          /\ turn.pre.decision = "passed"
          /\ turn.pre.history[Len(turn.pre.history)][1]
                 \in {"qa_testing_result", "qa_testing_simulation"}
          /\ app_state.stage = "Deployed"
    /\ app_state.stage = "Deployed" => app_state.decision = "passed"

C27_Witness ==
    /\ turn.op = "deploy"
    /\ turn.llm
    /\ turn.pre.stage = "Deploy"
    /\ turn.pre.decision = "passed"
    /\ app_state.stage = "Deployed"

\* C28: one turn changes the value of stage at most once, between the
\* handler and the dispatch branch that called it, and calls the service at
\* most once: only the one handler of the branch calls it.
C28_OneStageChangePerTurn ==
    /\ turn.op \in HandlerOps =>
          LET mid == Handler(turn.op, turn.pre, turn.llm, turn.resp)
          IN  StageChange(turn.pre.stage, mid.stage)
                  + StageChange(mid.stage, app_state.stage) <= 1
    /\ turn.invoked => turn.op \in HandlerOps /\ Invokes(turn.op, turn.pre, turn.llm)

C28_Witness ==
    /\ turn.op = "security_review"
    /\ Answered
    /\ turn.pre.stage = "Security Review"
    /\ app_state.stage = "Write Test Cases"

\* The stage in which a run of streamlit.py ends, for the button or handler
\* op, the record pre and the service's answer r, with the service configured
StageV1(op, pre, r) ==
    CASE op = "qa_testing" ->
             LET s1 == qa_testing_v1(pre, TRUE, r)
             IN  IF s1.decision = "passed" THEN "Deploy" ELSE "Code Review"
      [] op = "deploy" -> [deploy_v1(pre, TRUE, r) EXCEPT !.stage = "Deployed"].stage
      [] op \in ReviewHandlers ->
             ReviewDispatch(Handler(op, pre, TRUE, r), ApprovedSuccessor(pre.stage),
                            FeedbackSuccessor(pre.stage)).stage
      [] op \in GenerationHandlers \cup RevisionHandlers -> Handler(op, pre, TRUE, r).stage
      [] op \in ApproveOps -> ApprovedSuccessor(pre.stage)
      [] op \in SubmitOps ->
             IF app_state # pre THEN FeedbackSuccessor(pre.stage) ELSE pre.stage
      [] op = "start" ->
             IF app_state # pre THEN "Generate User Stories" ELSE "User Input"
      [] op = "reset" -> "User Input"

\* The stage names the main dispatch has a branch for
DispatchStages ==
    {"User Input", "Generate User Stories", "Product Owner Review", "Revise User Stories",
     "Create Design Docs", "Design Review", "Revise Design Docs", "Generate Code",
     "Code Review", "Fix Code Review", "Security Review", "Fix Security",
     "Write Test Cases", "Test Case Review", "Fix Test Cases", "QA Testing", "Deploy",
     "Deployed"}

C30_StageAlwaysDispatched ==
    app_state.stage \in DispatchStages

C30_Witness ==
    /\ turn.op = "deploy"
    /\ ~turn.llm
    /\ turn.pre.decision = "passed"
    /\ app_state.deployment_reasoning # Absent
    /\ app_state.stage = "Deployed"

\* The last turn is one of a run in which the service is available and
\* answers well-formed, every review verdict is approved and every QA
\* evaluation passes; a Start that submits nothing is no turn of the workflow
HappyTurn ==
    \/ turn.op = "init"
    \/ /\ turn.llm
       /\ ~turn.resp.exc
       /\ turn.op \in ReviewHandlers => app_state.decision = "approved"
       /\ turn.op \in SubmitOps => app_state = turn.pre
       /\ turn.op = "qa_testing" => app_state.decision = "passed"

\* C31: if the service is always available and well-formed, every review
\* verdict is approved and every QA evaluation passes, then under weak
\* fairness of the turns the record eventually reaches stage = Deployed.
C31_HappyRunReachesDeployed ==
    []HappyTurn => <>(app_state.stage = "Deployed")

WritersOf(f) ==
    CASE f = "user_stories" -> {"generate_user_stories", "revise_user_stories"}
      [] f = "design_docs" -> {"create_design_docs", "revise_design_docs"}
      [] f = "code" -> CodeWriters
      [] f = "test_cases" -> TestWriters

\* C33: in every record with stage = Deploy or stage = Deployed the four
\* artifacts are present, and code and test_cases are non-empty.
C33_DeployHasAllArtifacts ==
    app_state.stage \in {"Deploy", "Deployed"} =>
        /\ \A f \in ArtifactFields : app_state[f] # None
        /\ Truthy(app_state.code)
        /\ Truthy(app_state.test_cases)

\* Deploy entered on the simulated QA of a run without service
C33_Witness ==
    /\ app_state.stage = "Deploy"
    /\ turn.op = "qa_testing"
    /\ ~turn.llm
    /\ app_state.feedback = <<"Basic QA simulation passed.">>
    /\ Truthy(app_state.code)
    /\ Truthy(app_state.test_cases)

\* C34: no turn other than reset makes an artifact field absent again once
\* it is set, and each field is changed only by its own generate and
\* revise/fix handlers.
C34_ArtifactsKeptAndOwned ==
    turn.op # "reset" =>
        \A f \in ArtifactFields :
            /\ turn.pre[f] # None => app_state[f] # None
            /\ app_state[f] # turn.pre[f] => turn.op \in WritersOf(f) /\ Answered

\* The loop back from a failed QA keeps code and test_cases
C34_Witness ==
    /\ turn.op = "qa_testing"
    /\ app_state.decision = "failed"
    /\ app_state.stage = "Generate Code"
    /\ ArtifactsOf(app_state) = ArtifactsOf(turn.pre)
    /\ \A f \in ArtifactFields : app_state[f] # None

\* C35: a manual feedback submitted with empty text leaves the record
\* unchanged; the stage moves to the revision stage only with a non-empty
\* text, and then decision = feedback and feedback is the submitted text.
C35_EmptyFeedbackIgnored ==
    turn.op \in SubmitOps =>
        \/ app_state = turn.pre
        \/ /\ turn.pre.stage \in ReviewStages
           /\ app_state.stage = FeedbackSuccessor(turn.pre.stage)
           /\ app_state.decision = "feedback"
           /\ app_state.feedback \in FeedbackInputs \ {NoText}
           /\ app_state = [turn.pre EXCEPT !.stage = app_state.stage,
                                           !.decision = "feedback",
                                           !.feedback = app_state.feedback]

\* An empty submission at Code Review: the box stays open, nothing changed
C35_Witness ==
    /\ turn.op = "code_submit_feedback"
    /\ app_state = turn.pre
    /\ app_state.stage = "Code Review"
    /\ show_feedback_box
    /\ ~rerun

====
